---- MODULE Spec2Model ----
(***************************************************************************)
(* Deep neural network estimators of tensorflow/contrib/learn:             *)
(* the model function _dnn_model_fn and the DNNClassifier / DNNRegressor   *)
(* wrappers of estimators/dnn.py.                                          *)
(*                                                                         *)
(* Python values are tagged records ([type |-> ..., ...]); a dict is a     *)
(* function from its keys to its values; a float is counted in hundredths  *)
(* (0.05 is 5, 1.0 is 100).  A tensor is named by the graph op that        *)
(* produced it (its position in the graph), an input tensor by a negative  *)
(* number.                                                                 *)
(***************************************************************************)
EXTENDS Integers, Sequences, FiniteSets, TLC

VARIABLES
  estimator,  \* the generic Estimator holding model_fn, params and config
  params,     \* the hyperparameter dict object the Estimator hands to _dnn_model_fn
  pc,         \* position of the current _dnn_model_fn invocation
  args,       \* features, labels, mode, config of the current invocation
  local,      \* the locals read at lines 105-115
  net,        \* the tensor the next layer takes
  layer_id,   \* the loop counter of line 136
  graph,      \* the ops built so far, in order
  summaries,  \* the summaries recorded so far, in order
  calls,      \* calls made on collaborators: head, optimizer factory, optimize_loss
  result,     \* what the invocation returned or raised
  self,       \* the DNNClassifier or DNNRegressor object
  ctor,       \* the arguments of its __init__ and what __init__ raised
  mcall       \* the current call of a method of self

modelFnVars == <<pc, args, local, net, layer_id, graph, summaries, calls, result>>
wrapperVars == <<self, ctor, mcall>>
vars == <<estimator, params, modelFnVars, wrapperVars>>

(***************************************************************************)
(* Bounds of the model.                                                    *)
(***************************************************************************)
MaxHidden == 2
MaxReplicas == 1
MaxClasses == 3
MaxLabelDimension == 2

(***************************************************************************)
(* Python values.                                                          *)
(***************************************************************************)
None == [type |-> "NoneType"]
Str(s) == [type |-> "str", s |-> s]
Float(h) == [type |-> "float", hundredths |-> h]
Tensor(n) == [type |-> "Tensor", id |-> n]
Dict(f) == [type |-> "dict", items |-> f]
OptimizerObject(n) == [type |-> "Optimizer", name |-> n]
Callable(v) == [type |-> "function", returns |-> v]
RunConfig(n) == [type |-> "RunConfig", num_ps_replicas |-> n]
HeadObject(kind, dim) == [type |-> "_Head", kind |-> kind, logits_dimension |-> dim]

isinstance_dict(v) == v.type = "dict"
callable(v) == v.type = "function"

\* Python truth value of the values above.
Truthy(v) ==
  CASE v.type = "NoneType" -> FALSE
    [] v.type = "str" -> v.s /= ""
    [] v.type = "float" -> v.hundredths /= 0
    [] v.type = "dict" -> DOMAIN v.items /= {}
    [] OTHER -> TRUE

\* dict.get(key, default)
Get(d, key, default) == IF key \in DOMAIN d THEN d[key] ELSE default

\* a or b
Or(a, b) == IF Truthy(a) THEN a ELSE b

TRAIN == "train"
EVAL == "eval"
INFER == "infer"
ModeKeys == {TRAIN, EVAL, INFER}

(***************************************************************************)
(* Module constants and helpers (lines 46-68).                             *)
(***************************************************************************)
_CENTERED_BIAS_WEIGHT == "centered_bias_weight"

\* 0.05, in hundredths.
_LEARNING_RATE == 5

_get_feature_dict_always_wraps(features) == Dict([k \in {""} |-> features])

_get_feature_dict(features) ==
  IF isinstance_dict(features) THEN features ELSE Dict([k \in {""} |-> features])

_get_optimizer_not_invoked(optimizer) == optimizer

\* The optimizer handed on, and the calls of the factory this makes.
_get_optimizer(optimizer) ==
  IF callable(optimizer) THEN optimizer.returns ELSE optimizer

_get_optimizer_calls(optimizer) ==
  IF callable(optimizer) THEN <<[callee |-> "optimizer", fn |-> optimizer]>> ELSE <<>>

\* "%d" % n for n >= 0
Digit(d) ==
  CASE d = 0 -> "0" [] d = 1 -> "1" [] d = 2 -> "2" [] d = 3 -> "3" [] d = 4 -> "4"
    [] d = 5 -> "5" [] d = 6 -> "6" [] d = 7 -> "7" [] d = 8 -> "8" [] d = 9 -> "9"

RECURSIVE FormatD(_)
FormatD(n) == IF n < 10 THEN Digit(n) ELSE FormatD(n \div 10) \o Digit(n % 10)

\* a << n on Python integers
ShiftLeft(a, n) == a * 2^n

_add_hidden_layer_summary(value, tag) ==
  << [summary |-> "scalar", name |-> tag \o "_fraction_of_zero_values",
      value |-> [op |-> "zero_fraction", value |-> value]],
     [summary |-> "histogram", name |-> tag \o "_activation", value |-> value] >>

(***************************************************************************)
(* Collaborators, as far as _dnn_model_fn relies on them.                  *)
(***************************************************************************)
\* partitioned_variables.min_max_variable_partitioner(**kwargs): the keyword
\* arguments it was given.
min_max_variable_partitioner(kwargs) == [type |-> "partitioner", kwargs |-> kwargs]

\* layers.input_from_feature_columns fails with a lookup failure when a
\* column's key is not in columns_to_tensors.
input_from_feature_columns_raises(columns_to_tensors, feature_columns) ==
  \E i \in 1..Len(feature_columns) :
    feature_columns[i] \notin DOMAIN columns_to_tensors.items

\* The head calls the training-op factory when it has to train.
head_calls_train_op_fn(mode) == mode = TRAIN

\* The loss the head computes from the logits.
head_loss(logits) == Tensor(logits.id + 1)

\* What head_ops returns.
head_ops_result(call, train_op) ==
  [type |-> "ModelFnOps", head |-> call.head, mode |-> call.mode,
   logits |-> call.logits, train_op |-> train_op]

\* dnn_linear_combined._extract_embedding_lr_multipliers: the gradient
\* multipliers of the embedding variables under the input layer's scope.
_extract_embedding_lr_multipliers(multipliers, parent, input_scope) ==
  [type |-> "gradient_multipliers", of |-> multipliers, scope |-> input_scope]

(***************************************************************************)
(* _dnn_model_fn (lines 71-180), one action per construction step.         *)
(***************************************************************************)
parent_scope == "dnn"
input_layer_scope == parent_scope \o "/input_from_feature_columns"
hidden_layer_scope_from_one(id) == parent_scope \o "/hiddenlayer_" \o FormatD(id + 1)

hidden_layer_scope(id) == parent_scope \o "/hiddenlayer_" \o FormatD(id)
logits_scope == parent_scope \o "/logits"

IdleArgs == [features |-> None, labels |-> None, mode |-> "", config |-> None]

IdleLocal ==
  [head |-> None, hidden_units |-> <<>>, feature_columns |-> <<>>,
   optimizer |-> None, activation_fn |-> None, dropout |-> None,
   gradient_clip_norm |-> None, num_ps_replicas |-> 0,
   embedding_lr_multipliers |-> None, features |-> None, logits |-> None]

ConfiguredOptimizerNoDefault(p) == Get(p, "optimizer", None)

\* Line 108.
ConfiguredOptimizer(p) == Or(Get(p, "optimizer", None), Str("Adagrad"))

\* Line 112.
NumPsReplicas(config) == IF Truthy(config) THEN config.num_ps_replicas ELSE 0

\* Lines 105-115: the locals read from params and config.
ReadParams(features, p, config) ==
  [head |-> p["head"],
   hidden_units |-> p["hidden_units"],
   feature_columns |-> p["feature_columns"],
   optimizer |-> ConfiguredOptimizer(p),
   activation_fn |-> Get(p, "activation_fn", None),
   dropout |-> Get(p, "dropout", None),
   gradient_clip_norm |-> Get(p, "gradient_clip_norm", None),
   num_ps_replicas |-> NumPsReplicas(config),
   embedding_lr_multipliers |-> Get(p, "embedding_lr_multipliers", Dict(<<>>)),
   features |-> _get_feature_dict(features),
   logits |-> None]

\* Lines 118-121.
input_layer_partitioner(num_ps_replicas) ==
  min_max_variable_partitioner(
    [max_partitions |-> num_ps_replicas, min_slice_size |-> ShiftLeft(64, 20)])

hidden_layer_partitioner_min_slice(num_ps_replicas) ==
  min_max_variable_partitioner(
    [max_partitions |-> num_ps_replicas, min_slice_size |-> ShiftLeft(64, 20)])

\* Lines 133-135.
hidden_layer_partitioner(num_ps_replicas) ==
  min_max_variable_partitioner([max_partitions |-> num_ps_replicas])

ApplyDropoutAnyMode(dropout, mode) == dropout /= None

\* Line 147.
ApplyDropout(dropout, mode) == dropout /= None /\ mode = TRAIN

ModelFnCallWritesParams(features, labels, mode) ==
  /\ estimator.type = "Estimator"
  /\ pc = "idle"
  /\ args' = [features |-> features, labels |-> labels, mode |-> mode,
              config |-> estimator.config]
  /\ local' = ReadParams(features, params, estimator.config)
  /\ params' = [k \in DOMAIN params \cup {"optimizer"} |->
                  IF k = "optimizer" THEN ConfiguredOptimizer(params) ELSE params[k]]
  /\ pc' = "input_layer"
  /\ net' = None
  /\ layer_id' = 0
  /\ graph' = <<>>
  /\ summaries' = <<>>
  /\ calls' = <<>>
  /\ result' = None
  /\ UNCHANGED <<estimator, wrapperVars>>

\* The Estimator calls _dnn_model_fn(features, labels, mode, params, config);
\* lines 105-116 run.
ModelFnCall(features, labels, mode) ==
  /\ estimator.type = "Estimator"
  /\ pc = "idle"
  /\ args' = [features |-> features, labels |-> labels, mode |-> mode,
              config |-> estimator.config]
  /\ local' = ReadParams(features, params, estimator.config)
  /\ pc' = "input_layer"
  /\ net' = None
  /\ layer_id' = 0
  /\ graph' = <<>>
  /\ summaries' = <<>>
  /\ calls' = <<>>
  /\ result' = None
  /\ UNCHANGED <<estimator, params, wrapperVars>>

\* Lines 118-131.
InputLayer ==
  /\ pc = "input_layer"
  /\ IF input_from_feature_columns_raises(local.features, local.feature_columns)
     THEN /\ pc' = "raised"
          /\ result' = [type |-> "KeyError"]
          /\ UNCHANGED <<net, graph>>
     ELSE /\ graph' = Append(graph,
                 [op |-> "input_from_feature_columns",
                  scope |-> input_layer_scope,
                  partitioner |-> input_layer_partitioner(local.num_ps_replicas),
                  columns_to_tensors |-> local.features,
                  feature_columns |-> local.feature_columns,
                  weight_collections |-> <<parent_scope>>])
          /\ net' = Tensor(Len(graph) + 1)
          /\ pc' = "hidden_layers"
          /\ UNCHANGED result
  /\ UNCHANGED <<estimator, params, args, local, layer_id, summaries, calls, wrapperVars>>

\* Lines 136-151: one pass of the loop.
HiddenLayer ==
  /\ pc = "hidden_layers"
  /\ layer_id < Len(local.hidden_units)
  /\ LET scope == hidden_layer_scope(layer_id)
         fc == [op |-> "fully_connected",
                scope |-> scope,
                partitioner |-> hidden_layer_partitioner(local.num_ps_replicas),
                inputs |-> net,
                num_outputs |-> local.hidden_units[layer_id + 1],
                activation_fn |-> local.activation_fn,
                variables_collections |-> <<parent_scope>>]
         g1 == Append(graph, fc)
         g2 == IF ApplyDropout(local.dropout, args.mode)
               THEN Append(g1, [op |-> "dropout",
                                scope |-> scope,
                                inputs |-> Tensor(Len(g1)),
                                keep_prob |-> Float(100 - local.dropout.hundredths)])
               ELSE g1
     IN /\ graph' = g2
        /\ net' = Tensor(Len(g2))
        /\ summaries' = summaries \o _add_hidden_layer_summary(Tensor(Len(g2)), scope)
  /\ layer_id' = layer_id + 1
  /\ UNCHANGED <<estimator, params, pc, args, local, calls, result, wrapperVars>>

LogitsLayerActivated ==
  /\ pc = "hidden_layers"
  /\ layer_id >= Len(local.hidden_units)
  /\ graph' = Append(graph,
        [op |-> "fully_connected",
         scope |-> logits_scope,
         partitioner |-> hidden_layer_partitioner(local.num_ps_replicas),
         inputs |-> net,
         num_outputs |-> local.head.logits_dimension,
         activation_fn |-> local.activation_fn,
         variables_collections |-> <<parent_scope>>])
  /\ local' = [local EXCEPT !.logits = Tensor(Len(graph) + 1)]
  /\ summaries' = summaries \o _add_hidden_layer_summary(Tensor(Len(graph) + 1), logits_scope)
  /\ pc' = "head_ops"
  /\ UNCHANGED <<estimator, params, args, net, layer_id, calls, result, wrapperVars>>

\* Lines 153-163.
LogitsLayer ==
  /\ pc = "hidden_layers"
  /\ layer_id >= Len(local.hidden_units)
  /\ graph' = Append(graph,
        [op |-> "fully_connected",
         scope |-> logits_scope,
         partitioner |-> hidden_layer_partitioner(local.num_ps_replicas),
         inputs |-> net,
         num_outputs |-> local.head.logits_dimension,
         activation_fn |-> None,
         variables_collections |-> <<parent_scope>>])
  /\ local' = [local EXCEPT !.logits = Tensor(Len(graph) + 1)]
  /\ summaries' = summaries \o _add_hidden_layer_summary(Tensor(Len(graph) + 1), logits_scope)
  /\ pc' = "head_ops"
  /\ UNCHANGED <<estimator, params, args, net, layer_id, calls, result, wrapperVars>>

HeadOpsInvokesOptimizer ==
  /\ pc = "head_ops"
  /\ calls' = calls \o _get_optimizer_calls(local.optimizer) \o
        << [callee |-> "head_ops", head |-> local.head, features |-> local.features,
            labels |-> args.labels, mode |-> args.mode, train_op_fn |-> "_train_op_fn",
            logits |-> local.logits] >>
  /\ pc' = IF head_calls_train_op_fn(args.mode) THEN "train_op_fn" ELSE "return"
  /\ UNCHANGED <<estimator, params, args, local, net, layer_id, graph, summaries, result, wrapperVars>>

\* Line 180: head.head_ops(features, labels, mode, _train_op_fn, logits) is called.
HeadOps ==
  /\ pc = "head_ops"
  /\ calls' = Append(calls,
        [callee |-> "head_ops", head |-> local.head, features |-> local.features,
         labels |-> args.labels, mode |-> args.mode, train_op_fn |-> "_train_op_fn",
         logits |-> local.logits])
  /\ pc' = IF head_calls_train_op_fn(args.mode) THEN "train_op_fn" ELSE "return"
  /\ UNCHANGED <<estimator, params, args, local, net, layer_id, graph, summaries, result, wrapperVars>>

\* Lines 165-178: the head calls _train_op_fn(loss).
TrainOpFn ==
  /\ pc = "train_op_fn"
  /\ calls' = calls \o _get_optimizer_calls(local.optimizer) \o
        << [callee |-> "optimize_loss",
            loss |-> head_loss(local.logits),
            learning_rate |-> Float(_LEARNING_RATE),
            optimizer |-> _get_optimizer(local.optimizer),
            gradient_multipliers |->
              _extract_embedding_lr_multipliers(local.embedding_lr_multipliers,
                                                parent_scope, input_layer_scope),
            clip_gradients |-> local.gradient_clip_norm,
            name |-> parent_scope,
            summaries |-> <<>>] >>
  /\ pc' = "return"
  /\ UNCHANGED <<estimator, params, args, local, net, layer_id, graph, summaries, result, wrapperVars>>

\* Line 180: what head_ops returned is returned.
Return ==
  /\ pc = "return"
  /\ LET call == SelectSeq(calls, LAMBDA c : c.callee = "head_ops")[1]
         train == SelectSeq(calls, LAMBDA c : c.callee = "optimize_loss")
     IN result' = head_ops_result(call,
                    IF train /= <<>>
                    THEN [type |-> "train_op", loss |-> head_loss(local.logits)]
                    ELSE None)
  /\ pc' = "returned"
  /\ UNCHANGED <<estimator, params, args, local, net, layer_id, graph, summaries, calls, wrapperVars>>

(***************************************************************************)
(* The inputs the model draws from.                                        *)
(***************************************************************************)
Widths == {2, 3}
HiddenUnitsLists == UNION {[1..n -> Widths] : n \in 0..MaxHidden}
Dropouts == {None, Float(0), Float(50)}
Optimizers == {None, Str("SGD"), OptimizerObject("Ftrl"),
               Callable(OptimizerObject("Ftrl"))}
ClipNorms == {None, Float(500)}
ActivationFns == {None, [type |-> "builtin", name |-> "relu"]}
Heads == {HeadObject("multi_class", 1), HeadObject("regression", 3)}
Configs == {None} \cup {RunConfig(n) : n \in 1..MaxReplicas}
NoDict == [k \in {} |-> None]

\* features as passed by the caller, with the feature columns' keys
FeatureInputs ==
  { [features |-> Tensor(-1), feature_columns |-> <<"">>],
    [features |-> Tensor(-1), feature_columns |-> <<"a">>],
    [features |-> Dict([a |-> Tensor(-1)]), feature_columns |-> <<"a">>],
    [features |-> Dict([a |-> Tensor(-1), b |-> Tensor(-2)]), feature_columns |-> <<"a", "b">>] }
FeatureColumnSets == {i.feature_columns : i \in FeatureInputs}
FeatureValues == {i.features : i \in FeatureInputs}
LabelsOf(mode) == IF mode = INFER THEN None ELSE Tensor(-3)

RequiredKeys == {"head", "hidden_units", "feature_columns"}
OptionalKeys == {"optimizer", "activation_fn", "dropout", "gradient_clip_norm",
                 "embedding_lr_multipliers"}

\* The dict literal of lines 304-317.
ParamsDict(head, hidden_units, feature_columns, optimizer, activation_fn, dropout, gradient_clip_norm, embedding_lr_multipliers) ==
  [head |-> head,
   hidden_units |-> hidden_units,
   feature_columns |-> feature_columns,
   optimizer |-> optimizer,
   activation_fn |-> activation_fn,
   dropout |-> dropout,
   gradient_clip_norm |-> gradient_clip_norm,
   embedding_lr_multipliers |-> embedding_lr_multipliers]

\* A dict without its optional entries that are None.
WithoutNone(d) ==
  LET keep == {k \in DOMAIN d : k \in RequiredKeys \/ d[k] /= None}
  IN [k \in keep |-> d[k]]

(***************************************************************************)
(* The wrapper objects and their calls.                                    *)
(***************************************************************************)
NoObject == [type |-> "NoneType"]
NoCtor == [cls |-> "", kwargs |-> NoDict, raised |-> None, params |-> NoDict]
IdleCall == [op |-> "", kwargs |-> NoDict, pc |-> "idle", est_calls |-> <<>>,
             est_outcome |-> None, outcome |-> None]

Returned(v) == [type |-> "return", value |-> v]
Raised(e) == [type |-> "raise", error |-> e]

\* A failure in a call propagates; only a normal return yields the value.
ReturnOrRaiseSwallowed(collaborator, value) == Returned(value)

\* No method of the wrappers catches a failure (lines 320-332, 631-643, ...).
ReturnOrRaise(collaborator, value) ==
  IF collaborator.type = "raise" THEN collaborator ELSE Returned(value)

\* prediction_key.PredictionKey
CLASSES == "classes"
PROBABILITIES == "probabilities"
SCORES == "scores"

Tuple(items) == [type |-> "tuple", items |-> items]
MetricFn(n) == [type |-> "function", name |-> n]
MetricSpec(n) == [type |-> "MetricSpec", metric_fn |-> n]
isinstance_MetricSpec(v) == v.type = "MetricSpec"
isinstance_tuple(v) == v.type = "tuple"

\* d[k] = v on a dict's items
Store(items, k, v) == [x \in DOMAIN items \cup {k} |-> IF x = k THEN v ELSE items[x]]

\* The orders a dict of these keys may be iterated in.
Orders(keys) ==
  {q \in [1..Cardinality(keys) -> keys] : \A i, j \in DOMAIN q : q[i] = q[j] => i = j}

(***************************************************************************)
(* Collaborators of the wrappers.                                          *)
(***************************************************************************)
\* head_lib._multi_class_head validates n_classes.
multi_class_head_raises(n_classes) == n_classes < 2

_multi_class_head(n_classes, weight_column_name, enable_centered_bias) ==
  HeadObject("multi_class", IF n_classes = 2 THEN 1 ELSE n_classes)

_regression_head(label_dimension, weight_column_name, enable_centered_bias) ==
  HeadObject("regression", label_dimension)

\* monitor_lib.replace_monitors_with_hooks(monitors, estimator): the hooks, or
\* a failure on monitors it cannot wrap.
replace_monitors_with_hooks(monitors) ==
  IF monitors = None
  THEN {Returned([type |-> "hooks", monitors |-> None])}
  ELSE {Returned([type |-> "hooks", monitors |-> monitors]),
        Raised([type |-> "ValueError"])}

\* The mode the Estimator builds the graph in, by method.
ModeOf(method) ==
  CASE method = "fit" -> TRAIN
    [] method = "evaluate" -> EVAL
    [] OTHER -> INFER

\* The examples the Estimator predicts on, in input order.
Examples == 1..2

\* The number of classes of a multi-class head: one logit for two classes.
HeadClasses(head) == IF head.logits_dimension = 1 THEN 2 ELSE head.logits_dimension

\* The probabilities the trained model gives example i over k classes, in
\* hundredths.
Probabilities(k, i) ==
  [c \in 1..k |-> IF c = (i % k) + 1 THEN 100 - 10 * (k - 1) ELSE 10]

\* argmax: the first index (from 0) of the maximum.
ArgMax(p) ==
  CHOOSE c \in 0..(Len(p) - 1) :
    /\ \A d \in 0..(Len(p) - 1) : p[d + 1] <= p[c + 1]
    /\ \A d \in 0..(c - 1) : p[d + 1] < p[c + 1]

\* What the head predicts for example i under an output key.
PredictedValue(key, i, head) ==
  CASE key = CLASSES -> <<ArgMax(Probabilities(HeadClasses(head), i))>>
    [] key = PROBABILITIES -> Probabilities(HeadClasses(head), i)
    [] OTHER -> <<[type |-> "prediction", key |-> key, example |-> i]>>

\* A numpy array: its shape and its elements in row-major order.
ndarray(shape, data) == [type |-> "ndarray", shape |-> shape, data |-> data]

\* a.reshape(-1)
reshape_flat(a) == ndarray(<<Len(a.data)>>, a.data)

RECURSIVE Rows(_, _)
Rows(row, n) == IF n = 0 THEN <<>> ELSE Rows(row, n - 1) \o row[n]

\* What Estimator.predict(outputs=..., as_iterable=...) returns: one dict per
\* example, or one array per output with a row per example.
EstimatorPredictions(outputs, as_iterable, head) ==
  LET keys == {outputs[i] : i \in 1..Len(outputs)}
      n == Cardinality(Examples)
      value(k, i) == PredictedValue(k, i, head)
      scalar(k) == Len(value(k, 1)) = 1
  IN IF as_iterable
     THEN [type |-> "iterable",
           items |-> [i \in Examples |->
                        [k \in keys |-> IF scalar(k) THEN value(k, i)[1] ELSE value(k, i)]]]
     ELSE [type |-> "dict",
           items |-> [k \in keys |->
                        ndarray(<<n, Len(value(k, 1))>>,
                                Rows([i \in Examples |-> value(k, i)], n))]]

\* What a call of the Estimator returns when it does not fail.
EstimatorValue(c, head) ==
  CASE c.method = "fit" -> [type |-> "Estimator"]
    [] c.method = "evaluate" -> [type |-> "eval_result", metrics |-> c.kwargs.metrics]
    [] c.method = "predict" ->
         EstimatorPredictions(c.kwargs.outputs, c.kwargs.as_iterable, head)
    [] OTHER -> [type |-> "export_result", export_dir |-> c.kwargs.export_dir]

EstimatorErrors == {[type |-> "ValueError"], [type |-> "NanLossDuringTrainingError"]}

\* Estimator.get_variable_value(name): the value stored under that name, or a
\* failure when no trained model holds it.
VariableValue(name) == [type |-> "ndarray", variable |-> name]
GetVariableValueErrors == {[type |-> "NotFoundError"]}

\* A Python list.
List(items) == [type |-> "list", items |-> items]

(***************************************************************************)
(* A method of a wrapper: up to its call of the Estimator, and from the    *)
(* Estimator's answer on.                                                  *)
(***************************************************************************)
CanCall(cls) ==
  /\ self.type = cls
  /\ mcall.pc \in {"idle", "done"}
  /\ pc = "idle"

CallEstimator(op, a, method, kwargs) ==
  /\ mcall' = [op |-> op, kwargs |-> a, pc |-> "in_estimator",
               est_calls |-> <<[method |-> method, kwargs |-> kwargs]>>,
               est_outcome |-> None, outcome |-> None]
  /\ UNCHANGED <<estimator, params, modelFnVars, self, ctor>>

RaiseBeforeCall(op, a, failure) ==
  /\ mcall' = [op |-> op, kwargs |-> a, pc |-> "done", est_calls |-> <<>>,
               est_outcome |-> None, outcome |-> failure]
  /\ UNCHANGED <<estimator, params, modelFnVars, self, ctor>>

Answered(cls, op) ==
  /\ self.type = cls
  /\ mcall.op = op
  /\ mcall.pc = "estimator_done"

Finish(outcome) ==
  /\ mcall' = [mcall EXCEPT !.pc = "done", !.outcome = outcome]
  /\ UNCHANGED <<estimator, params, modelFnVars, self, ctor>>

\* The value of a normal answer of the Estimator (None after a failure).
Answer == IF mcall.est_outcome.type = "return" THEN mcall.est_outcome.value ELSE None

(***************************************************************************)
(* DNNClassifier (lines 183-500).                                          *)
(***************************************************************************)
DNNClassifier_init_head_unchecked(a) ==
  /\ self = NoObject
  /\ ctor = NoCtor
  /\ LET d == ParamsDict(
                _multi_class_head(a.n_classes, a.weight_column_name,
                                  a.enable_centered_bias),
                a.hidden_units, a.feature_columns, a.optimizer,
                a.activation_fn, a.dropout, a.gradient_clip_norm,
                a.embedding_lr_multipliers)
     IN /\ self' = [type |-> "DNNClassifier",
                    _hidden_units |-> a.hidden_units,
                    _feature_columns |-> a.feature_columns,
                    _enable_centered_bias |-> a.enable_centered_bias]
        /\ estimator' = [type |-> "Estimator", config |-> a.config]
        /\ params' = d
        /\ ctor' = [cls |-> "DNNClassifier", kwargs |-> a, raised |-> None,
                    params |-> d]
  /\ UNCHANGED <<modelFnVars, mcall>>

\* __init__, lines 297-318: the head is built while the arguments of
\* estimator.Estimator(...) are evaluated.
DNNClassifier_init(a) ==
  /\ self = NoObject
  /\ ctor = NoCtor
  /\ IF multi_class_head_raises(a.n_classes)
     THEN /\ ctor' = [cls |-> "DNNClassifier", kwargs |-> a,
                      raised |-> [type |-> "ValueError"], params |-> NoDict]
          /\ UNCHANGED <<self, estimator, params>>
     ELSE LET d == ParamsDict(
                     _multi_class_head(a.n_classes, a.weight_column_name,
                                       a.enable_centered_bias),
                     a.hidden_units, a.feature_columns, a.optimizer,
                     a.activation_fn, a.dropout, a.gradient_clip_norm,
                     a.embedding_lr_multipliers)
          IN /\ self' = [type |-> "DNNClassifier",
                         _hidden_units |-> a.hidden_units,
                         _feature_columns |-> a.feature_columns,
                         _enable_centered_bias |-> a.enable_centered_bias]
             /\ estimator' = [type |-> "Estimator", config |-> a.config]
             /\ params' = d
             /\ ctor' = [cls |-> "DNNClassifier", kwargs |-> a, raised |-> None,
                         params |-> d]
  /\ UNCHANGED <<modelFnVars, mcall>>

\* fit, lines 320-332.
DNNClassifier_fit(a) ==
  /\ CanCall("DNNClassifier")
  /\ \E hooks \in replace_monitors_with_hooks(a.monitors) :
       IF hooks.type = "raise"
       THEN RaiseBeforeCall("fit", a, hooks)
       ELSE CallEstimator("fit", a, "fit",
              [x |-> a.x, y |-> a.y, input_fn |-> a.input_fn, steps |-> a.steps,
               batch_size |-> a.batch_size, monitors |-> hooks.value,
               max_steps |-> a.max_steps])

DNNClassifier_fit_returns_estimator ==
  /\ Answered("DNNClassifier", "fit")
  /\ Finish(ReturnOrRaise(mcall.est_outcome, Answer))

DNNClassifier_fit_return ==
  /\ Answered("DNNClassifier", "fit")
  /\ Finish(ReturnOrRaise(mcall.est_outcome, self))

\* evaluate, lines 334-341.
DNNClassifier_evaluate(a) ==
  /\ CanCall("DNNClassifier")
  /\ CallEstimator("evaluate", a, "evaluate",
       [x |-> a.x, y |-> a.y, input_fn |-> a.input_fn, feed_fn |-> a.feed_fn,
        batch_size |-> a.batch_size, steps |-> a.steps, metrics |-> a.metrics,
        name |-> a.name, checkpoint_path |-> a.checkpoint_path])

DNNClassifier_evaluate_return ==
  /\ Answered("DNNClassifier", "evaluate")
  /\ Finish(ReturnOrRaise(mcall.est_outcome, Answer))

\* predict, lines 346-369.
DNNClassifier_predict(a) ==
  /\ CanCall("DNNClassifier")
  /\ CallEstimator("predict", a, "predict",
       [x |-> a.x, input_fn |-> a.input_fn, batch_size |-> a.batch_size,
        outputs |-> <<CLASSES>>, as_iterable |-> a.as_iterable])

DNNClassifier_predict_return ==
  /\ Answered("DNNClassifier", "predict")
  /\ LET key == CLASSES
         preds == Answer
     IN Finish(ReturnOrRaise(mcall.est_outcome,
          IF preds = None THEN None
          ELSE IF mcall.kwargs.as_iterable
          THEN [type |-> "generator",
                items |-> [i \in DOMAIN preds.items |-> preds.items[i][key]]]
          ELSE reshape_flat(preds.items[key])))

DNNClassifier_predict_proba_requests_classes(a) ==
  /\ CanCall("DNNClassifier")
  /\ CallEstimator("predict_proba", a, "predict",
       [x |-> a.x, input_fn |-> a.input_fn, batch_size |-> a.batch_size,
        outputs |-> <<CLASSES, PROBABILITIES>>, as_iterable |-> a.as_iterable])

\* predict_proba, lines 374-398.
DNNClassifier_predict_proba(a) ==
  /\ CanCall("DNNClassifier")
  /\ CallEstimator("predict_proba", a, "predict",
       [x |-> a.x, input_fn |-> a.input_fn, batch_size |-> a.batch_size,
        outputs |-> <<PROBABILITIES>>, as_iterable |-> a.as_iterable])

DNNClassifier_predict_proba_return ==
  /\ Answered("DNNClassifier", "predict_proba")
  /\ LET key == PROBABILITIES
         preds == Answer
     IN Finish(ReturnOrRaise(mcall.est_outcome,
          IF preds = None THEN None
          ELSE IF mcall.kwargs.as_iterable
          THEN [type |-> "generator",
                items |-> [i \in DOMAIN preds.items |-> preds.items[i][key]]]
          ELSE preds.items[key]))

\* export, lines 425-446.
DNNClassifier_export(a) ==
  /\ CanCall("DNNClassifier")
  /\ CallEstimator("export", a, "export",
       [export_dir |-> a.export_dir,
        input_fn |-> Or(a.input_fn,
                        [type |-> "function", name |-> "default_input_fn",
                         feature_columns |-> self._feature_columns]),
        input_feature_key |-> a.input_feature_key,
        use_deprecated_input_fn |-> a.use_deprecated_input_fn,
        signature_fn |-> Or(a.signature_fn,
                            [type |-> "function",
                             name |-> "classification_signature_fn_with_prob"]),
        prediction_key |-> PROBABILITIES,
        default_batch_size |-> a.default_batch_size,
        exports_to_keep |-> a.exports_to_keep])

DNNClassifier_export_return ==
  /\ Answered("DNNClassifier", "export")
  /\ Finish(ReturnOrRaise(mcall.est_outcome, Answer))

\* get_variable_value, lines 414-423, as the accessors call it.
get_variable_value(name) == [method |-> "get_variable_value", kwargs |-> [name |-> name]]

\* Lines 474-479: the names weights_ reads, in the order it reads them.
weights_names(hidden_units) ==
  [i \in 1..Len(hidden_units) |-> "dnn/hiddenlayer_" \o FormatD(i - 1) \o "/weights"]
    \o <<"dnn/logits/weights">>

bias_names_always_centered(hidden_units, enable_centered_bias) ==
  [i \in 1..Len(hidden_units) |-> "dnn/hiddenlayer_" \o FormatD(i - 1) \o "/biases"]
    \o <<"dnn/logits/biases">> \o <<_CENTERED_BIAS_WEIGHT>>

\* Lines 487-496: the names bias_ reads, in the order it reads them.
bias_names(hidden_units, enable_centered_bias) ==
  [i \in 1..Len(hidden_units) |-> "dnn/hiddenlayer_" \o FormatD(i - 1) \o "/biases"]
    \o <<"dnn/logits/biases">>
    \o (IF enable_centered_bias THEN <<_CENTERED_BIAS_WEIGHT>> ELSE <<>>)

\* A property that reads these variables one after the other and returns the
\* list of their values; the first read that fails ends it.
ReadVariables(op, names) ==
  \E read \in 0..Len(names) :
    \E e \in GetVariableValueErrors :
      LET failed == read < Len(names)
          asked == IF failed THEN read + 1 ELSE read
          last == IF failed THEN Raised(e) ELSE Returned(VariableValue(names[read]))
      IN /\ mcall' = [op |-> op, kwargs |-> NoDict, pc |-> "done",
                      est_calls |-> [i \in 1..asked |-> get_variable_value(names[i])],
                      est_outcome |-> last,
                      outcome |-> ReturnOrRaise(last,
                                    List([i \in 1..Len(names) |-> VariableValue(names[i])]))]
         /\ UNCHANGED <<estimator, params, modelFnVars, self, ctor>>

\* weights_, lines 473-479.
DNNClassifier_weights_ ==
  /\ CanCall("DNNClassifier")
  /\ ReadVariables("weights_", weights_names(self._hidden_units))

\* bias_, lines 486-496.
DNNClassifier_bias_ ==
  /\ CanCall("DNNClassifier")
  /\ ReadVariables("bias_", bias_names(self._hidden_units, self._enable_centered_bias))

(***************************************************************************)
(* DNNRegressor (lines 503-744).                                           *)
(***************************************************************************)
\* __init__, lines 611-629.
DNNRegressor_init(a) ==
  /\ self = NoObject
  /\ ctor = NoCtor
  /\ LET d == ParamsDict(
                _regression_head(a.label_dimension, a.weight_column_name,
                                 a.enable_centered_bias),
                a.hidden_units, a.feature_columns, a.optimizer,
                a.activation_fn, a.dropout, a.gradient_clip_norm,
                a.embedding_lr_multipliers)
     IN /\ self' = [type |-> "DNNRegressor", _feature_columns |-> a.feature_columns]
        /\ estimator' = [type |-> "Estimator", config |-> a.config]
        /\ params' = d
        /\ ctor' = [cls |-> "DNNRegressor", kwargs |-> a, raised |-> None, params |-> d]
  /\ UNCHANGED <<modelFnVars, mcall>>

\* fit, lines 631-643.
DNNRegressor_fit(a) ==
  /\ CanCall("DNNRegressor")
  /\ \E hooks \in replace_monitors_with_hooks(a.monitors) :
       IF hooks.type = "raise"
       THEN RaiseBeforeCall("fit", a, hooks)
       ELSE CallEstimator("fit", a, "fit",
              [x |-> a.x, y |-> a.y, input_fn |-> a.input_fn, steps |-> a.steps,
               batch_size |-> a.batch_size, monitors |-> hooks.value,
               max_steps |-> a.max_steps])

DNNRegressor_fit_return ==
  /\ Answered("DNNRegressor", "fit")
  /\ Finish(ReturnOrRaise(mcall.est_outcome, self))

\* Lines 653-657: the key a metric is stored under.
CustomMetricKey(key, metric) ==
  IF ~isinstance_MetricSpec(metric) /\ ~isinstance_tuple(key)
  THEN Tuple(<<key, Str(SCORES)>>)
  ELSE key

\* Lines 650-657: custom_metrics after the loop over metrics in this order.
RECURSIVE CustomMetrics(_, _, _)
CustomMetrics(metrics, order, custom_metrics) ==
  IF order = <<>>
  THEN custom_metrics
  ELSE LET key == Head(order)
           metric == metrics.items[key]
       IN CustomMetrics(metrics, Tail(order),
            Store(custom_metrics, CustomMetricKey(key, metric), metric))

\* evaluate, lines 645-662.
DNNRegressor_evaluate(a) ==
  /\ CanCall("DNNRegressor")
  /\ \E order \in (IF Truthy(a.metrics) THEN Orders(DOMAIN a.metrics.items) ELSE {<<>>}) :
       CallEstimator("evaluate", a, "evaluate",
         [x |-> a.x, y |-> a.y, input_fn |-> a.input_fn, feed_fn |-> a.feed_fn,
          batch_size |-> a.batch_size, steps |-> a.steps,
          metrics |-> Dict(CustomMetrics(a.metrics, order, NoDict)),
          name |-> a.name, checkpoint_path |-> a.checkpoint_path])

DNNRegressor_evaluate_return ==
  /\ Answered("DNNRegressor", "evaluate")
  /\ Finish(ReturnOrRaise(mcall.est_outcome, Answer))

\* predict, lines 667-690.
DNNRegressor_predict(a) ==
  /\ CanCall("DNNRegressor")
  /\ CallEstimator("predict", a, "predict",
       [x |-> a.x, input_fn |-> a.input_fn, batch_size |-> a.batch_size,
        outputs |-> <<SCORES>>, as_iterable |-> a.as_iterable])

DNNRegressor_predict_return ==
  /\ Answered("DNNRegressor", "predict")
  /\ LET key == SCORES
         preds == Answer
     IN Finish(ReturnOrRaise(mcall.est_outcome,
          IF preds = None THEN None
          ELSE IF mcall.kwargs.as_iterable
          THEN [type |-> "generator",
                items |-> [i \in DOMAIN preds.items |-> preds.items[i][key]]]
          ELSE preds.items[key]))

\* export, lines 717-737.
DNNRegressor_export(a) ==
  /\ CanCall("DNNRegressor")
  /\ CallEstimator("export", a, "export",
       [export_dir |-> a.export_dir,
        input_fn |-> Or(a.input_fn,
                        [type |-> "function", name |-> "default_input_fn",
                         feature_columns |-> self._feature_columns]),
        input_feature_key |-> a.input_feature_key,
        use_deprecated_input_fn |-> a.use_deprecated_input_fn,
        signature_fn |-> Or(a.signature_fn,
                            [type |-> "function", name |-> "regression_signature_fn"]),
        prediction_key |-> SCORES,
        default_batch_size |-> a.default_batch_size,
        exports_to_keep |-> a.exports_to_keep])

DNNRegressor_export_return ==
  /\ Answered("DNNRegressor", "export")
  /\ Finish(ReturnOrRaise(mcall.est_outcome, Answer))

(***************************************************************************)
(* The generic Estimator around _dnn_model_fn.                             *)
(***************************************************************************)
NoEstimator == [type |-> "NoneType", config |-> None]

\* estimator.Estimator(model_fn=_dnn_model_fn, params=p, config=config)
EstimatorInit(p, config) ==
  /\ estimator = NoEstimator
  /\ estimator' = [type |-> "Estimator", config |-> config]
  /\ params' = p
  /\ UNCHANGED <<modelFnVars, wrapperVars>>

NewEstimator ==
  /\ estimator = NoEstimator
  /\ \E head \in Heads, hidden_units \in HiddenUnitsLists, fc \in FeatureColumnSets,
        optimizer \in Optimizers, activation_fn \in ActivationFns, dropout \in Dropouts,
        clip \in ClipNorms, config \in Configs, sparse \in BOOLEAN :
       LET d == ParamsDict(head, hidden_units, fc, optimizer, activation_fn, dropout,
                           clip, None)
       IN EstimatorInit(IF sparse THEN WithoutNone(d) ELSE d, config)

\* A graph build: the Estimator calls the model function once.
BuildGraph ==
  /\ pc = "idle"
  /\ \E mode \in ModeKeys, features \in FeatureValues :
       ModelFnCall(features, LabelsOf(mode), mode)

\* The graph of a finished invocation is dropped.
DropGraph ==
  /\ pc' = "idle"
  /\ args' = IdleArgs
  /\ local' = IdleLocal
  /\ net' = None
  /\ layer_id' = 0
  /\ graph' = <<>>
  /\ summaries' = <<>>
  /\ calls' = <<>>
  /\ result' = None

\* The Estimator takes what the model function returned or raised.
TakeResult ==
  /\ pc \in {"returned", "raised"}
  /\ DropGraph
  /\ UNCHANGED <<estimator, params, wrapperVars>>

(***************************************************************************)
(* The Estimator inside a call of a wrapper's method.                      *)
(***************************************************************************)
EstimatorFeatures == {Dict([a |-> Tensor(-1)]), Dict([b |-> Tensor(-2)])}

\* The graph build of the call: the model function is invoked once, in the
\* method's mode, with the params and config the Estimator was built with.
EstimatorBuildsGraph ==
  /\ mcall.pc = "in_estimator"
  /\ pc = "idle"
  /\ \E features \in EstimatorFeatures :
       LET mode == ModeOf(mcall.est_calls[1].method)
       IN ModelFnCall(features, LabelsOf(mode), mode)

\* The Estimator's call ends normally.
EstimatorReturns ==
  /\ mcall.pc = "in_estimator"
  /\ pc = "returned"
  /\ mcall' = [mcall EXCEPT !.pc = "estimator_done",
                            !.est_outcome =
                              Returned(EstimatorValue(mcall.est_calls[1], params["head"]))]
  /\ DropGraph
  /\ UNCHANGED <<estimator, params, self, ctor>>

\* The Estimator's call fails: on its arguments, with what the model function
\* raised, or while it runs the graph.
EstimatorRaises ==
  /\ mcall.pc = "in_estimator"
  /\ pc \in {"idle", "raised", "returned"}
  /\ \E e \in (IF pc = "raised" THEN {result} ELSE EstimatorErrors) :
       mcall' = [mcall EXCEPT !.pc = "estimator_done", !.est_outcome = Raised(e)]
  /\ DropGraph
  /\ UNCHANGED <<estimator, params, self, ctor>>

(***************************************************************************)
(* The arguments the wrappers are called with.                             *)
(***************************************************************************)
relu == [type |-> "builtin", name |-> "relu"]

ClassifierKwargs ==
  [hidden_units : HiddenUnitsLists, feature_columns : {<<"a">>},
   n_classes : 1..MaxClasses, weight_column_name : {None},
   optimizer : {None, Callable(OptimizerObject("Ftrl"))}, activation_fn : {relu},
   dropout : {None, Float(50)}, gradient_clip_norm : {None},
   enable_centered_bias : BOOLEAN, config : {None},
   embedding_lr_multipliers : {None}]

RegressorKwargs ==
  [hidden_units : HiddenUnitsLists, feature_columns : {<<"a">>},
   label_dimension : 1..MaxLabelDimension, weight_column_name : {None},
   optimizer : {None, Callable(OptimizerObject("Ftrl"))}, activation_fn : {relu},
   dropout : {None, Float(50)}, gradient_clip_norm : {None},
   enable_centered_bias : BOOLEAN, config : {None},
   embedding_lr_multipliers : {None}]

FitKwargs ==
  { [x |-> "x1", y |-> "y1", input_fn |-> "None", steps |-> "100",
     batch_size |-> "32", monitors |-> None, max_steps |-> "None"],
    [x |-> "None", y |-> "None", input_fn |-> "input_fn", steps |-> "None",
     batch_size |-> "None", monitors |-> [type |-> "list", of |-> "monitors"],
     max_steps |-> "200"] }

MetricKeys == {Str("k"), Tuple(<<Str("k"), Str(SCORES)>>)}
MetricValues == {MetricFn("m1"), MetricFn("m2"), MetricSpec("m1")}
MetricDicts == {Dict(f) : f \in UNION {[D -> MetricValues] : D \in SUBSET MetricKeys}}
ClassifierMetrics == {None, Dict([k \in {Str("k")} |-> MetricFn("m1")])}
RegressorMetrics == {None} \cup MetricDicts

EvaluateKwargs(metrics) ==
  [x : {"None"}, y : {"None"}, input_fn : {"input_fn"}, feed_fn : {"feed_fn"},
   batch_size : {"None"}, steps : {"10"}, metrics : metrics, name : {"eval"},
   checkpoint_path : {"ckpt"}]

PredictKwargs ==
  [x : {"x1"}, input_fn : {"None"}, batch_size : {"32"}, as_iterable : BOOLEAN]

ExportKwargs ==
  { [export_dir |-> "dir", input_fn |-> None, input_feature_key |-> "None",
     use_deprecated_input_fn |-> TRUE, signature_fn |-> None,
     default_batch_size |-> "1", exports_to_keep |-> "None"],
    [export_dir |-> "dir", input_fn |-> [type |-> "function", name |-> "input_fn"],
     input_feature_key |-> "key", use_deprecated_input_fn |-> FALSE,
     signature_fn |-> [type |-> "function", name |-> "signature_fn"],
     default_batch_size |-> "8", exports_to_keep |-> "5"] }

NewClassifier ==
  /\ self = NoObject /\ ctor = NoCtor /\ estimator = NoEstimator
  /\ \E a \in ClassifierKwargs : DNNClassifier_init(a)

NewRegressor ==
  /\ self = NoObject /\ ctor = NoCtor /\ estimator = NoEstimator
  /\ \E a \in RegressorKwargs : DNNRegressor_init(a)

ClassifierCall ==
  /\ CanCall("DNNClassifier")
  /\ \/ \E a \in FitKwargs : DNNClassifier_fit(a)
     \/ \E a \in EvaluateKwargs(ClassifierMetrics) : DNNClassifier_evaluate(a)
     \/ \E a \in PredictKwargs : DNNClassifier_predict(a)
     \/ \E a \in PredictKwargs : DNNClassifier_predict_proba(a)
     \/ \E a \in ExportKwargs : DNNClassifier_export(a)
     \/ DNNClassifier_weights_
     \/ DNNClassifier_bias_

ClassifierReturn ==
  \/ DNNClassifier_fit_return
  \/ DNNClassifier_evaluate_return
  \/ DNNClassifier_predict_return
  \/ DNNClassifier_predict_proba_return
  \/ DNNClassifier_export_return

RegressorCall ==
  /\ CanCall("DNNRegressor")
  /\ \/ \E a \in FitKwargs : DNNRegressor_fit(a)
     \/ \E a \in EvaluateKwargs(RegressorMetrics) : DNNRegressor_evaluate(a)
     \/ \E a \in PredictKwargs : DNNRegressor_predict(a)
     \/ \E a \in ExportKwargs : DNNRegressor_export(a)

RegressorReturn ==
  \/ DNNRegressor_fit_return
  \/ DNNRegressor_evaluate_return
  \/ DNNRegressor_predict_return
  \/ DNNRegressor_export_return

Init ==
  /\ estimator = NoEstimator
  /\ params = NoDict
  /\ pc = "idle"
  /\ args = IdleArgs
  /\ local = IdleLocal
  /\ net = None
  /\ layer_id = 0
  /\ graph = <<>>
  /\ summaries = <<>>
  /\ calls = <<>>
  /\ result = None
  /\ self = NoObject
  /\ ctor = NoCtor
  /\ mcall = IdleCall

ModelFnStep == InputLayer \/ HiddenLayer \/ LogitsLayer \/ HeadOps \/ TrainOpFn \/ Return

Next == NewEstimator \/ BuildGraph \/ ModelFnStep \/ TakeResult

Spec == Init /\ [][Next]_vars

\* The wrappers: an object is built, its methods are called, and the Estimator
\* builds the graph inside each call.
NextEst ==
  \/ NewClassifier \/ NewRegressor
  \/ ClassifierCall \/ ClassifierReturn
  \/ RegressorCall \/ RegressorReturn
  \/ EstimatorBuildsGraph \/ ModelFnStep
  \/ EstimatorReturns \/ EstimatorRaises

SpecEst == Init /\ [][NextEst]_vars

(***************************************************************************)
(* Properties of _dnn_model_fn.                                            *)
(***************************************************************************)
GraphOps(kind) == SelectSeq(graph, LAMBDA o : o.op = kind)
CallsOf(callee) == SelectSeq(calls, LAMBDA c : c.callee = callee)
Invoked == pc /= "idle"
GraphBuilt == pc \in {"head_ops", "train_op_fn", "return", "returned"}
IsHiddenLayer(o) == o.op = "fully_connected" /\ o.scope /= "dnn/logits"

\* C1: a dropout op follows a hidden layer's fully-connected op, taking its
\* output, exactly when mode is TRAIN and params holds a dropout rate; no
\* other dropout op exists, so in EVAL and PREDICT the graph holds none and
\* every layer takes the previous layer's output as it is.
C1_DropoutIffTrainAndConfigured ==
  Invoked =>
    LET configured == Get(params, "dropout", None) /= None
    IN \A i \in 1..Len(graph) :
         /\ IsHiddenLayer(graph[i]) =>
              ( ( /\ i < Len(graph)
                  /\ graph[i + 1].op = "dropout"
                  /\ graph[i + 1].inputs = Tensor(i) )
                <=> (args.mode = TRAIN /\ configured) )
         /\ graph[i].op = "dropout" =>
              /\ args.mode = TRAIN /\ configured
              /\ i > 1 /\ IsHiddenLayer(graph[i - 1])
         /\ (args.mode /= TRAIN /\ graph[i].op = "fully_connected") =>
              graph[i].inputs = Tensor(i - 1)

C1_Witness ==
  /\ pc = "returned"
  /\ args.mode = EVAL
  /\ "dropout" \in DOMAIN params /\ params["dropout"] = Float(50)
  /\ Len(params["hidden_units"]) >= 2
  /\ Len(GraphOps("fully_connected")) = Len(params["hidden_units"]) + 1

\* The scope names of the naming convention, written out.
HiddenLayerScopeNames ==
  << "dnn/hiddenlayer_0", "dnn/hiddenlayer_1", "dnn/hiddenlayer_2",
     "dnn/hiddenlayer_3", "dnn/hiddenlayer_4", "dnn/hiddenlayer_5" >>

\* C2: the fully-connected layers of an invocation are created, in order,
\* under dnn/hiddenlayer_0 .. dnn/hiddenlayer_<N-1> for the N entries of
\* hidden_units and then under dnn/logits, whatever mode, dropout, optimizer
\* and config are; the scope names are a function of hidden_units alone.
C2_ScopeNamesDeterministic ==
  Invoked =>
    LET n == Len(params["hidden_units"])
        fcs == GraphOps("fully_connected")
    IN /\ Len(fcs) <= n + 1
       /\ \A i \in 1..Len(fcs) :
            fcs[i].scope = IF i <= n THEN HiddenLayerScopeNames[i] ELSE "dnn/logits"
       /\ pc = "hidden_layers" => Len(fcs) = layer_id
       /\ GraphBuilt => Len(fcs) = n + 1

C2_Witness ==
  /\ pc = "returned"
  /\ Len(params["hidden_units"]) = 2
  /\ GraphOps("fully_connected")[2].scope = "dnn/hiddenlayer_1"
  /\ GraphOps("fully_connected")[3].scope = "dnn/logits"

\* C3: with a factory f as params['optimizer'] the optimizer handed to
\* optimize_loss is f's product, the same as with f's product as
\* params['optimizer']; a configured optimizer that is not callable is
\* handed over as it is.
C3_CallableOptimizerEquivalent ==
  \A i \in 1..Len(calls) :
    calls[i].callee = "optimize_loss" =>
      LET o == Get(params, "optimizer", None)
      IN /\ \A f \in {x \in Optimizers : callable(x)} :
              (o = f \/ o = f.returns) => calls[i].optimizer = f.returns
         /\ (o /= None /\ ~callable(o)) => calls[i].optimizer = o

C3_Witness ==
  /\ pc = "returned"
  /\ Len(CallsOf("optimize_loss")) = 1
  /\ callable(params["optimizer"])
  /\ CallsOf("optimize_loss")[1].optimizer = OptimizerObject("Ftrl")

\* C6: the training-op factory hands optimize_loss the optimizer "Adagrad"
\* and the learning rate 0.05 when params has no 'optimizer' entry or it is
\* None, the configured optimizer otherwise, and in both cases the configured
\* gradient_clip_norm as clip_gradients.
C6_DefaultAdagrad ==
  \A i \in 1..Len(calls) :
    calls[i].callee = "optimize_loss" =>
      LET o == IF "optimizer" \in DOMAIN params THEN params["optimizer"] ELSE None
          clip == IF "gradient_clip_norm" \in DOMAIN params
                  THEN params["gradient_clip_norm"] ELSE None
      IN /\ o = None =>
              /\ calls[i].optimizer = Str("Adagrad")
              /\ calls[i].learning_rate = Float(5)
         /\ o /= None =>
              calls[i].optimizer = IF o.type = "function" THEN o.returns ELSE o
         /\ calls[i].clip_gradients = clip

C6_Witness ==
  /\ pc = "returned"
  /\ "optimizer" \notin DOMAIN params
  /\ "gradient_clip_norm" \in DOMAIN params
  /\ params["gradient_clip_norm"] = Float(500)
  /\ Len(CallsOf("optimize_loss")) = 1
  /\ CallsOf("optimize_loss")[1].optimizer = Str("Adagrad")

\* C7: the feature encoder and the head both receive the features mapping:
\* the input itself when it is a mapping, and otherwise the mapping with the
\* one key "" whose value is the input.
C7_FeatureNormalization ==
  LET expected == IF args.features.type = "dict"
                  THEN args.features
                  ELSE [type |-> "dict", items |-> [k \in {""} |-> args.features]]
  IN /\ \A i \in 1..Len(graph) :
          graph[i].op = "input_from_feature_columns" =>
            graph[i].columns_to_tensors = expected
     /\ \A i \in 1..Len(calls) :
          calls[i].callee = "head_ops" => calls[i].features = expected
     /\ GraphBuilt => Len(GraphOps("input_from_feature_columns")) = 1
     /\ pc \in {"train_op_fn", "return", "returned"} => Len(CallsOf("head_ops")) = 1

C7_Witness ==
  /\ pc = "returned"
  /\ args.features = Tensor(-1)
  /\ DOMAIN graph[1].columns_to_tensors.items = {""}
  /\ CallsOf("head_ops")[1].features.items[""] = Tensor(-1)

\* C8: every partitioner the invocation builds has max_partitions equal to
\* config.num_ps_replicas, or 0 without a config; the input layer's
\* partitioner has min_slice_size 67108864 (64 MiB), and the partitioner of
\* the hidden layers and of the logits layer is given no min_slice_size.
C8_PartitioningHint ==
  LET shards == IF estimator.config = None THEN 0
                ELSE estimator.config.num_ps_replicas
  IN \A i \in 1..Len(graph) :
       /\ graph[i].op \in {"input_from_feature_columns", "fully_connected"} =>
            graph[i].partitioner.kwargs.max_partitions = shards
       /\ graph[i].op = "input_from_feature_columns" =>
            /\ DOMAIN graph[i].partitioner.kwargs = {"max_partitions", "min_slice_size"}
            /\ graph[i].partitioner.kwargs.min_slice_size = 67108864
       /\ graph[i].op = "fully_connected" =>
            DOMAIN graph[i].partitioner.kwargs = {"max_partitions"}

C8_Witness ==
  /\ pc = "returned"
  /\ estimator.config = RunConfig(1)
  /\ Len(params["hidden_units"]) >= 1
  /\ graph[1].partitioner.kwargs.max_partitions = 1
  /\ graph[Len(graph)].scope = "dnn/logits"
  /\ graph[Len(graph)].partitioner.kwargs.max_partitions = 1

(***************************************************************************)
(* Properties of the wrappers.                                             *)
(***************************************************************************)
\* C4: a DNNClassifier(n_classes < 2) fails in __init__ with the head's
\* validation failure: no object and no Estimator come to exist, so no method
\* is ever called and no graph is ever built for it.
C4_ClassifierNeedsTwoClasses ==
  (ctor.cls = "DNNClassifier" /\ ctor.kwargs.n_classes < 2) =>
    /\ ctor.raised = [type |-> "ValueError"]
    /\ self = NoObject
    /\ estimator = NoEstimator
    /\ params = NoDict
    /\ mcall = IdleCall
    /\ pc = "idle"

C4_Witness ==
  /\ ctor.cls = "DNNClassifier"
  /\ ctor.kwargs.n_classes = 1
  /\ ctor.raised = [type |-> "ValueError"]

\* C5: in DNNRegressor.evaluate every entry (key, metric) of the metrics
\* argument reaches the Estimator with its metric unchanged, under
\* (key, SCORES) when the metric is no MetricSpec and the key no tuple, and
\* under key otherwise.
C5_EveryMetricForwarded ==
  ( /\ self.type = "DNNRegressor"
    /\ mcall.op = "evaluate"
    /\ Len(mcall.est_calls) = 1
    /\ mcall.kwargs.metrics /= None ) =>
    LET metrics == mcall.kwargs.metrics.items
        forwarded == mcall.est_calls[1].kwargs.metrics.items
    IN \A key \in DOMAIN metrics :
         LET metric == metrics[key]
             under == IF metric.type /= "MetricSpec" /\ key.type /= "tuple"
                      THEN [type |-> "tuple", items |-> <<key, Str("scores")>>]
                      ELSE key
         IN under \in DOMAIN forwarded /\ forwarded[under] = metric

\* C9: a failure of the Estimator, or of another collaborator, in a call of
\* fit, evaluate, predict, predict_proba or export is the outcome of that
\* call; the Estimator is called at most once per call; a call returns
\* normally only when the Estimator did.
C9_FailuresPropagateUnchanged ==
  /\ mcall.op \in {"fit", "evaluate", "predict", "predict_proba", "export"} =>
       Len(mcall.est_calls) <= 1
  /\ mcall.pc = "done" =>
       /\ mcall.est_outcome.type = "raise" => mcall.outcome = mcall.est_outcome
       /\ mcall.est_calls = <<>> => mcall.outcome.type = "raise"
       /\ mcall.outcome.type = "return" => mcall.est_outcome.type = "return"

C9_Witness ==
  /\ mcall.pc = "done"
  /\ mcall.op = "fit"
  /\ Len(mcall.est_calls) = 1
  /\ mcall.est_outcome = Raised([type |-> "KeyError"])
  /\ mcall.outcome = Raised([type |-> "KeyError"])

\* C10: the parameter bundle the Estimator holds is at all times the one
\* __init__ built from its arguments: neither a method of the wrapper nor an
\* invocation of _dnn_model_fn writes to it.
C10_ParamsFixedAtConstruction ==
  self /= NoObject =>
    /\ params = ctor.params
    /\ DOMAIN params = {"head", "hidden_units", "feature_columns", "optimizer",
                        "activation_fn", "dropout", "gradient_clip_norm",
                        "embedding_lr_multipliers"}
    /\ params["head"].kind = IF self.type = "DNNClassifier" THEN "multi_class"
                             ELSE "regression"
    /\ params["hidden_units"] = ctor.kwargs.hidden_units
    /\ params["feature_columns"] = ctor.kwargs.feature_columns
    /\ params["optimizer"] = ctor.kwargs.optimizer
    /\ params["activation_fn"] = ctor.kwargs.activation_fn
    /\ params["dropout"] = ctor.kwargs.dropout
    /\ params["gradient_clip_norm"] = ctor.kwargs.gradient_clip_norm
    /\ params["embedding_lr_multipliers"] = ctor.kwargs.embedding_lr_multipliers

C10_Witness ==
  /\ self.type = "DNNClassifier"
  /\ mcall.pc = "done"
  /\ mcall.op = "fit"
  /\ mcall.outcome.type = "return"
  /\ params["optimizer"] = None
  /\ params["dropout"] = Float(50)

\* C11: for a DNNClassifier with N hidden layers, weights_ returns the list
\* of the N+1 values of dnn/hiddenlayer_0/weights .. dnn/hiddenlayer_<N-1>/weights
\* and then dnn/logits/weights; bias_ returns the values of
\* dnn/hiddenlayer_<i>/biases in the same order, then dnn/logits/biases, and
\* then the value of centered_bias_weight as a last element exactly when
\* enable_centered_bias was set at construction.
C11_WeightsAndBiasByName ==
  ( /\ self.type = "DNNClassifier"
    /\ mcall.op \in {"weights_", "bias_"}
    /\ mcall.outcome.type = "return" ) =>
    LET n == Len(ctor.kwargs.hidden_units)
        v == mcall.outcome.value.items
        kind == IF mcall.op = "weights_" THEN "/weights" ELSE "/biases"
        centered == mcall.op = "bias_" /\ ctor.kwargs.enable_centered_bias
    IN /\ Len(v) = IF centered THEN n + 2 ELSE n + 1
       /\ \A i \in 1..n :
            v[i] = [type |-> "ndarray", variable |-> HiddenLayerScopeNames[i] \o kind]
       /\ v[n + 1] = [type |-> "ndarray", variable |-> "dnn/logits" \o kind]
       /\ centered => v[n + 2] = [type |-> "ndarray", variable |-> "centered_bias_weight"]
       /\ Len(mcall.est_calls) = Len(v)
       /\ \A i \in 1..Len(v) : mcall.est_calls[i].kwargs.name = v[i].variable

C11_Witness ==
  /\ self.type = "DNNClassifier"
  /\ mcall.op = "bias_"
  /\ mcall.outcome.type = "return"
  /\ Len(ctor.kwargs.hidden_units) = 2
  /\ ctor.kwargs.enable_centered_bias
  /\ Len(mcall.outcome.value.items) = 4

\* C12: a call of fit, evaluate, predict or predict_proba on either wrapper
\* calls the Estimator built in __init__ exactly once, on fit, evaluate,
\* predict and predict respectively, and hands it x, y, input_fn, steps,
\* batch_size, max_steps, feed_fn, name and checkpoint_path as the caller
\* gave them; the classifier's evaluate hands on metrics as given; fit
\* returns the wrapper itself.  Only a fit whose monitors could not be
\* converted ends, with that failure, before the Estimator is called.
C12_PureFacade ==
  ( /\ self /= NoObject
    /\ mcall.op \in {"fit", "evaluate", "predict", "predict_proba"} ) =>
    LET a == mcall.kwargs
        passed == {"x", "y", "input_fn", "steps", "batch_size", "max_steps",
                   "feed_fn", "name", "checkpoint_path"}
    IN /\ estimator = [type |-> "Estimator", config |-> ctor.kwargs.config]
       /\ Len(mcall.est_calls) <= 1
       /\ mcall.est_calls = <<>> =>
            /\ mcall.op = "fit"
            /\ a.monitors /= None
            /\ mcall.pc = "done"
            /\ mcall.outcome.type = "raise"
       /\ Len(mcall.est_calls) = 1 =>
            LET c == mcall.est_calls[1]
            IN /\ c.method = IF mcall.op = "predict_proba" THEN "predict" ELSE mcall.op
               /\ \A k \in DOMAIN a \cap passed :
                    k \in DOMAIN c.kwargs /\ c.kwargs[k] = a[k]
               /\ (mcall.op = "evaluate" /\ self.type = "DNNClassifier") =>
                    c.kwargs.metrics = a.metrics
       /\ (mcall.op = "fit" /\ mcall.pc = "done" /\ mcall.outcome.type = "return") =>
            mcall.outcome.value = self

C12_Witness ==
  /\ self.type = "DNNClassifier"
  /\ mcall.op = "fit"
  /\ mcall.pc = "done"
  /\ mcall.outcome = [type |-> "return", value |-> self]
  /\ Len(mcall.est_calls) = 1
  /\ mcall.est_calls[1].method = "fit"
  /\ mcall.est_calls[1].kwargs.x = "x1"
  /\ mcall.est_calls[1].kwargs.steps = "100"

RECURSIVE SumSeq(_)
SumSeq(q) == IF q = <<>> THEN 0 ELSE Head(q) + SumSeq(Tail(q))

\* C13: predict asks the Estimator for the CLASSES output only and
\* predict_proba for the PROBABILITIES output only; each returns one element
\* per example, in input order.  With n_classes = k an element of
\* predict_proba is that example's k probabilities, which sum to 1, and the
\* element of predict is the index of their maximum.
C13_PredictMatchesPredictProba ==
  ( /\ self.type = "DNNClassifier"
    /\ mcall.op \in {"predict", "predict_proba"}
    /\ Len(mcall.est_calls) = 1 ) =>
    LET k == ctor.kwargs.n_classes
        n == Cardinality(Examples)
        out == mcall.outcome.value
        proba(i) == Probabilities(k, i)
    IN /\ mcall.est_calls[1].method = "predict"
       /\ mcall.est_calls[1].kwargs.outputs =
            IF mcall.op = "predict" THEN <<"classes">> ELSE <<"probabilities">>
       /\ \A i \in 1..n : Len(proba(i)) = k /\ SumSeq(proba(i)) = 100
       /\ (mcall.pc = "done" /\ mcall.outcome.type = "return") =>
            /\ out.type = IF mcall.kwargs.as_iterable THEN "generator" ELSE "ndarray"
            /\ out.type = "generator" => DOMAIN out.items = 1..n
            /\ (out.type = "ndarray" /\ mcall.op = "predict") => out.shape = <<n>>
            /\ (out.type = "ndarray" /\ mcall.op = "predict_proba") => out.shape = <<n, k>>
            /\ \A i \in 1..n :
                 LET element == IF out.type = "generator" THEN out.items[i]
                                ELSE IF mcall.op = "predict" THEN out.data[i]
                                ELSE SubSeq(out.data, (i - 1) * k + 1, i * k)
                 IN IF mcall.op = "predict_proba"
                    THEN element = proba(i)
                    ELSE /\ element \in 0..(k - 1)
                         /\ \A c \in 1..k : proba(i)[c] <= proba(i)[element + 1]

C13_Witness ==
  /\ self.type = "DNNClassifier"
  /\ ctor.kwargs.n_classes = 3
  /\ mcall.op = "predict"
  /\ mcall.pc = "done"
  /\ mcall.outcome.type = "return"
  /\ ~mcall.kwargs.as_iterable
  /\ mcall.outcome.value = [type |-> "ndarray", shape |-> <<2>>, data |-> <<1, 2>>]

C15_NoMetricDropped ==
  ( /\ self.type = "DNNRegressor"
    /\ mcall.op = "evaluate"
    /\ Len(mcall.est_calls) = 1 ) =>
    LET given == IF mcall.kwargs.metrics = None THEN {}
                 ELSE DOMAIN mcall.kwargs.metrics.items
        forwarded == DOMAIN mcall.est_calls[1].kwargs.metrics.items
    IN Cardinality(forwarded) = Cardinality(given)

\* C16: an optimizer factory is called only inside the training-op factory:
\* never while _dnn_model_fn builds the graph, once for each call of the
\* training-op factory by the head (right before its optimize_loss call),
\* and never in an invocation in which the head does not call the
\* training-op factory, such as one in EVAL or PREDICT mode.
C16_FactoryInvokedOnlyInTrainOp ==
  LET configured == IF "optimizer" \in DOMAIN params THEN params["optimizer"] ELSE None
      factory == configured.type = "function"
      invocations == CallsOf("optimizer")
      train_ops == CallsOf("optimize_loss")
  IN /\ pc \in {"idle", "input_layer", "hidden_layers", "head_ops", "train_op_fn", "raised"} =>
          invocations = <<>>
     /\ Len(invocations) = IF factory THEN Len(train_ops) ELSE 0
     /\ \A i \in 1..Len(calls) :
          calls[i].callee = "optimizer" =>
            /\ calls[i].fn = configured
            /\ calls[1].callee = "head_ops"
            /\ i > 1
            /\ i < Len(calls)
            /\ calls[i + 1].callee = "optimize_loss"
     /\ Len(train_ops) <= 1
     /\ args.mode /= "train" => (train_ops = <<>> /\ invocations = <<>>)

C16_Witness ==
  /\ pc = "returned"
  /\ args.mode = TRAIN
  /\ callable(params["optimizer"])
  /\ Len(calls) = 3
  /\ calls[1].callee = "head_ops"
  /\ calls[2] = [callee |-> "optimizer", fn |-> params["optimizer"]]
  /\ calls[3].callee = "optimize_loss"

====
